---- MODULE Spec2Model ----
(***************************************************************************)
(* Model of mortal/convert_kaggle_dataset.py: the conversion of the rows   *)
(* of the eight Kaggle action tables into synthetic mjai event logs.       *)
(*                                                                         *)
(* A Python call either returns a value or raises.  It is modelled by a    *)
(* record [exc, ret]: exc = "none" and ret the returned value, or exc the  *)
(* exception (its class and message) and ret = <<>>.  Optional[T] is the   *)
(* empty sequence for None and <<x>> for a value x.                        *)
(***************************************************************************)
EXTENDS Integers, Sequences, FiniteSets, TLC

VARIABLES
    pc,         \* position of the modelled call
    tile_id,    \* tile_id_to_mjai: the argument
    symbol,     \* tile_id_to_mjai: the outcome
    action,     \* __split_action_tiles: the action entry
    actor,      \* __split_action_tiles: the actor seat
    split,      \* __split_action_tiles: the outcome
    table,      \* convert_table: the table name
    payload,    \* the decoded row whose events were built last
    built,      \* outcome of building that row's events
    rows,       \* convert_table: what the table holds / fetchall() returned
    row_idx,    \* convert_table: rows fully converted and written
    directory,  \* whether output_dir exists
    files,      \* output files: table name -> lines written
    queried,    \* tables a SELECT was executed on, in order
    error,      \* the exception that left the modelled call
    result,     \* convert_table: the TableExportResult returned
    database,   \* run_conversion: table name -> rows
    results     \* run_conversion: the list returned

vars == <<pc, tile_id, symbol, action, actor, split, table, payload, built,
          rows, row_idx, directory, files, queried, error, result, database,
          results>>

\* ---------------------------------------------------------------- bounds

MaxTileId == 139        \* the codec is applied to -MaxNegative..MaxTileId
MaxNegative == 4
MaxLen == 4             \* longest tiles/who list of an action entry
MaxRows == 3            \* most rows in a table

\* --------------------------------------------------------------- helpers

None == <<>>
Some(x) == <<x>>

Ok(v) == [exc |-> "none", ret |-> v]
Raise(e) == [exc |-> e, ret |-> <<>>]

NegativeTileId == "ValueError: negative tile id"
UnknownTileId == "ValueError: unknown tile id"
ChiMissing == "RuntimeError: chi action missing target tile"
PonMissing == "RuntimeError: pon action missing target tile"
DaiminkanMissing == "RuntimeError: daiminkan missing target tile"
ShouminkanFour == "RuntimeError: shouminkan expects four tiles from actor"
AnkanFour == "RuntimeError: ankan expects four tiles"
TableEmpty == "RuntimeError: table is empty"
DecompressFailed == "RuntimeError: failed to decompress row"
SkipArity == "TypeError: skip_conversion() takes 1 positional argument but 2 were given"
ListIndex == "IndexError: list index out of range"

\* The error kinds of the specification, as the exceptions that stand for them.
InvalidTileId == {NegativeTileId, UnknownTileId}
MalformedAction == {ChiMissing, PonMissing, DaiminkanMissing, ShouminkanFour, AnkanFour}

Min(a, b) == IF a < b THEN a ELSE b
Max(a, b) == IF a > b THEN a ELSE b

\* ------------------------------------------------------------ tile codec

MJAI_TILES ==
    << "1m", "2m", "3m", "4m", "5m", "6m", "7m", "8m", "9m",
       "1p", "2p", "3p", "4p", "5p", "6p", "7p", "8p", "9p",
       "1s", "2s", "3s", "4s", "5s", "6s", "7s", "8s", "9s",
       "E", "S", "W", "N", "P", "F", "C" >>

WIND_TO_TILE(w) ==
    CASE w = 0 -> "E" [] w = 1 -> "S" [] w = 2 -> "W" [] w = 3 -> "N"
      [] OTHER -> "E"

\* MJAI_TILES[tile_type]: a Python list index, 0-based, IndexError past the end
\* (tile_type is never negative here: tile_id >= 0).
TileIndexOffByOne(tile_type) ==
    IF tile_type >= 1 /\ tile_type <= Len(MJAI_TILES)
    THEN Ok(MJAI_TILES[tile_type]) ELSE Raise(ListIndex)

TileIndex(tile_type) ==
    IF tile_type + 1 <= Len(MJAI_TILES)
    THEN Ok(MJAI_TILES[tile_type + 1]) ELSE Raise(ListIndex)

tile_id_to_mjai(t) ==
    IF t < 0 THEN Raise(NegativeTileId)
    ELSE LET got == TileIndex(t \div 4)
         IN  IF got.exc = ListIndex THEN Raise(UnknownTileId) ELSE got

\* [tile_id_to_mjai(t) for t in ids]: the first failing element raises.
RECURSIVE DecodeAll(_)
DecodeAll(ids) ==
    IF ids = <<>> THEN Ok(<<>>)
    ELSE LET first == tile_id_to_mjai(Head(ids))
         IN  IF first.exc # "none" THEN first
             ELSE LET rest == DecodeAll(Tail(ids))
                  IN  IF rest.exc # "none" THEN rest
                      ELSE Ok(<<first.ret>> \o rest.ret)

\* ------------------------------------------------- decision-payload extractor

\* zip(tiles, who) filtered on tile >= 0: a sequence of <<tile_id, owner>>.
RECURSIVE ZipFrom(_, _, _)
ZipFrom(tiles, who, i) ==
    IF i > Min(Len(tiles), Len(who)) THEN <<>>
    ELSE (IF tiles[i] >= 0 THEN << <<tiles[i], who[i]>> >> ELSE <<>>)
         \o ZipFrom(tiles, who, i + 1)

tiles_from_action(entry) == ZipFrom(entry.tiles, entry.who, 1)

\* The loop of __split_action_tiles from pair i on, with the locals so far.
RECURSIVE SplitLoopFirstWins(_, _, _, _, _, _)
SplitLoopFirstWins(pairs, i, seat, consumed, pai, target) ==
    IF i > Len(pairs) THEN Ok([consumed |-> consumed, pai |-> pai, target |-> target])
    ELSE LET tile == tile_id_to_mjai(pairs[i][1])
         IN  IF tile.exc # "none" THEN tile
             ELSE IF pairs[i][2] = seat
             THEN SplitLoopFirstWins(pairs, i + 1, seat, Append(consumed, tile.ret), pai, target)
             ELSE IF pai = None
             THEN SplitLoopFirstWins(pairs, i + 1, seat, consumed, Some(tile.ret), Some(pairs[i][2]))
             ELSE SplitLoopFirstWins(pairs, i + 1, seat, consumed, pai, target)

RECURSIVE SplitLoop(_, _, _, _, _, _)
SplitLoop(pairs, i, seat, consumed, pai, target) ==
    IF i > Len(pairs) THEN Ok([consumed |-> consumed, pai |-> pai, target |-> target])
    ELSE LET tile == tile_id_to_mjai(pairs[i][1])
         IN  IF tile.exc # "none" THEN tile
             ELSE IF pairs[i][2] = seat
             THEN SplitLoop(pairs, i + 1, seat, Append(consumed, tile.ret), pai, target)
             ELSE SplitLoop(pairs, i + 1, seat, consumed, Some(tile.ret), Some(pairs[i][2]))

\* Returns (consumed, [pai] if pai else [], target); a tile symbol is never "".
_split_action_tiles(entry, seat) ==
    LET r == SplitLoop(tiles_from_action(entry), 1, seat, <<>>, None, None)
    IN  IF r.exc # "none" THEN r
        ELSE Ok([consumed |-> r.ret.consumed,
                 claimed  |-> r.ret.pai,
                 target   |-> r.ret.target])

\* ------------------------------------------------------- event builders

HandSize == 13

start_game_event ==
    [type |-> "start_game", names |-> << "Player0", "Player1", "Player2", "Player3" >>]

Unknown13 == [i \in 1..HandSize |-> "?"]

\* hand_tiles[:13], right-padded with "?" to 13 slots.
Concealed(hand) ==
    [i \in 1..HandSize |-> IF i <= Len(hand) THEN hand[i] ELSE "?"]

start_kyoku_event(state) ==
    LET dora_markers == IF state.dora_indicators = <<>> THEN <<0>>
                        ELSE state.dora_indicators
        dora_marker == tile_id_to_mjai(dora_markers[1])
        hand_tiles == DecodeAll(state.hand_tiles)
    IN  IF dora_marker.exc # "none" THEN dora_marker
        ELSE IF hand_tiles.exc # "none" THEN hand_tiles
        ELSE Ok([type        |-> "start_kyoku",
                 bakaze      |-> WIND_TO_TILE(state.round_wind),
                 dora_marker |-> dora_marker.ret,
                 kyoku       |-> Max(1, Min(4, state.kyoku)),
                 honba       |-> state.num_honba,
                 kyotaku     |-> state.num_riichi,
                 oya         |-> state.oya,
                 scores      |-> state.points,
                 tehais      |-> [seat \in 1..4 |->
                                    IF seat = state.player_wind + 1
                                    THEN Concealed(hand_tiles.ret)
                                    ELSE Unknown13]])

\* Optional event: None when no tile was drawn.
tsumo_event(state) ==
    LET tiles == state.hand_tiles
    IN  IF Len(tiles) <= HandSize THEN Ok(None)
        ELSE LET pai == tile_id_to_mjai(tiles[Len(tiles)])
             IN  IF pai.exc # "none" THEN pai
                 ELSE Ok(Some([type |-> "tsumo", actor |-> state.player_wind,
                               pai |-> pai.ret]))

\* state["valid_actions"][state["action_idx"]]
SelectedAction(state) == state.valid_actions[state.action_idx + 1]

\* seq[:n]
Take(seq, n) == SubSeq(seq, 1, Min(n, Len(seq)))

\* chi_event, pon_event and daiminkan_event differ in the event type, the
\* message of the RuntimeError and the length consumed is cut to.
CallEvent(state, type, missing, n) ==
    LET r == _split_action_tiles(SelectedAction(state), state.player_wind)
    IN  IF r.exc # "none" THEN r
        ELSE IF r.ret.target = None \/ r.ret.claimed = <<>> THEN Raise(missing)
        ELSE Ok([type     |-> type,
                 actor    |-> state.player_wind,
                 target   |-> r.ret.target[1],
                 pai      |-> r.ret.claimed[1],
                 consumed |-> Take(r.ret.consumed, n)])

chi_event(state) == CallEvent(state, "chi", ChiMissing, 2)
pon_event(state) == CallEvent(state, "pon", PonMissing, 2)
daiminkan_event(state) == CallEvent(state, "daiminkan", DaiminkanMissing, 3)

\* [tile for tile, owner in tiles_from_action(action) if owner == actor]
RECURSIVE OwnedIds(_, _, _)
OwnedIds(pairs, i, seat) ==
    IF i > Len(pairs) THEN <<>>
    ELSE (IF pairs[i][2] = seat THEN << pairs[i][1] >> ELSE <<>>)
         \o OwnedIds(pairs, i + 1, seat)

\* The decoded tiles of the actor in the selected entry.
ActorTiles(state) ==
    DecodeAll(OwnedIds(tiles_from_action(SelectedAction(state)), 1, state.player_wind))

kakan_eventThree(state) ==
    LET tiles == ActorTiles(state)
    IN  IF tiles.exc # "none" THEN tiles
        ELSE IF Len(tiles.ret) < 3 THEN Raise(ShouminkanFour)
        ELSE Ok([type |-> "kakan", actor |-> state.player_wind,
                 pai |-> tiles.ret[1], consumed |-> Take(tiles.ret, 3)])

kakan_event(state) ==
    LET tiles == ActorTiles(state)
    IN  IF tiles.exc # "none" THEN tiles
        ELSE IF Len(tiles.ret) < 4 THEN Raise(ShouminkanFour)
        ELSE Ok([type |-> "kakan", actor |-> state.player_wind,
                 pai |-> tiles.ret[1], consumed |-> Take(tiles.ret, 3)])

ankan_event(state) ==
    LET tiles == ActorTiles(state)
    IN  IF tiles.exc # "none" THEN tiles
        ELSE IF Len(tiles.ret) < 4 THEN Raise(AnkanFour)
        ELSE Ok([type |-> "ankan", actor |-> state.player_wind,
                 consumed |-> Take(tiles.ret, 4)])

\* tsumogiri_tile is Optional[str].
discard_eventAnyDraw(state, tsumogiri_tile) ==
    LET tiles == SelectedAction(state).tiles
    IN  IF tiles = <<>> THEN Raise(ListIndex)
        ELSE LET pai == tile_id_to_mjai(tiles[1])
             IN  IF pai.exc # "none" THEN pai
                 ELSE Ok([type |-> "dahai", actor |-> state.player_wind,
                          pai |-> pai.ret,
                          tsumogiri |-> tsumogiri_tile # None])

discard_event(state, tsumogiri_tile) ==
    LET tiles == SelectedAction(state).tiles
    IN  IF tiles = <<>> THEN Raise(ListIndex)
        ELSE LET pai == tile_id_to_mjai(tiles[1])
             IN  IF pai.exc # "none" THEN pai
                 ELSE Ok([type |-> "dahai", actor |-> state.player_wind,
                          pai |-> pai.ret,
                          tsumogiri |-> IF tsumogiri_tile # None
                                        THEN tsumogiri_tile[1] = pai.ret
                                        ELSE FALSE])

reach_events(state, tsumogiri_tile) ==
    LET dahai == discard_event(state, tsumogiri_tile)
    IN  IF dahai.exc # "none" THEN dahai
        ELSE Ok(<< [type |-> "reach", actor |-> state.player_wind], dahai.ret >>)

skip_conversion(state) == Ok(<<>>)

\* A one-event list of an event builder: [f(state)].
ListOf(r) == IF r.exc # "none" THEN r ELSE Ok(<< r.ret >>)

\* The keys of ACTION_BUILDERS, in insertion order.
Tables ==
    << "Skip", "Discard", "Chi", "Pon", "DaiMinKan", "ShouMinKan", "AnKan", "Riichi" >>
TableNames == { Tables[i] : i \in 1..Len(Tables) }

\* Positional parameters of ACTION_BUILDERS[name].
Parameters(name) == IF name = "Skip" THEN 1 ELSE 2

\* ACTION_BUILDERS[name](state, tsumo): a call with two positional arguments.
CallBuilder(name, state, tsumo) ==
    IF Parameters(name) # 2 THEN Raise(SkipArity)
    ELSE CASE name = "Discard"    -> ListOf(discard_event(state, tsumo))
           [] name = "Chi"        -> ListOf(chi_event(state))
           [] name = "Pon"        -> ListOf(pon_event(state))
           [] name = "DaiMinKan"  -> ListOf(daiminkan_event(state))
           [] name = "ShouMinKan" -> ListOf(kakan_event(state))
           [] name = "AnKan"      -> ListOf(ankan_event(state))
           [] name = "Riichi"     -> reach_events(state, tsumo)
           [] name = "Skip"       -> skip_conversion(state)

ryukyoku_event(state) == [type |-> "ryukyoku", deltas |-> state.PointsReward]

tail_events == << [type |-> "end_kyoku"], [type |-> "end_game"] >>

\* tsumo["pai"] if tsumo else None
DrawnPai(tsumo) == IF tsumo # None THEN Some(tsumo[1].pai) ELSE None

\* The list a row's events are collected in: tsumo is Optional, acts the
\* outcome of the category's builder.
Collect(state, tsumo, kyoku, acts) ==
    IF acts.exc # "none" THEN acts
    ELSE Ok(<< start_game_event, kyoku >> \o tsumo \o acts.ret
            \o << ryukyoku_event(state) >> \o tail_events)

\* tsumo and kyoku are the outcomes of tsumo_event(state) and
\* start_kyoku_event(state), the first two calls of the row.
RowEventsAfter(name, state, tsumo, kyoku) ==
    IF tsumo.exc # "none" THEN tsumo
    ELSE IF kyoku.exc # "none" THEN kyoku
    ELSE Collect(state, tsumo.ret, kyoku.ret,
                 CallBuilder(name, state, DrawnPai(tsumo.ret)))

\* The events of one row, as convert_table builds them before writing any.
RowEvents(name, state) ==
    RowEventsAfter(name, state, tsumo_event(state), start_kyoku_event(state))

\* ------------------------------------------------------------ conversion

\* gzip.decompress and json.loads of a row's blob; a blob that is no gzip data
\* raises OSError, which convert_table turns into a RuntimeError.
RowResult(name, row) ==
    IF row.corrupt THEN Raise(DecompressFailed) ELSE RowEvents(name, row.data)

\* json.dumps(event) followed by "\n": one line of text per event.  The text
\* is represented by the event it encodes (json.dumps is injective on events).
Line(event) == [json |-> event]
Lines(events) == [i \in 1..Len(events) |-> Line(events[i])]

\* output_dir / f"{table.lower()}.json.gz"
OutputPath(name) ==
    CASE name = "Skip" -> "skip.json.gz"
      [] name = "Discard" -> "discard.json.gz"
      [] name = "Chi" -> "chi.json.gz"
      [] name = "Pon" -> "pon.json.gz"
      [] name = "DaiMinKan" -> "daiminkan.json.gz"
      [] name = "ShouMinKan" -> "shouminkan.json.gz"
      [] name = "AnKan" -> "ankan.json.gz"
      [] name = "Riichi" -> "riichi.json.gz"

TableExportResult(name, n) == [table |-> name, rows |-> n, output |-> OutputPath(name)]

\* f with x mapped to v, x added to its domain if new.
Put(f, x, v) == [y \in DOMAIN f \cup {x} |-> IF y = x THEN v ELSE f[y]]

RECURSIVE ConvertRows(_, _, _, _)

\* The end of one iteration of the row loop: r is the outcome of building the
\* events of row i; they are written only when all of them were built.
WriteRow(name, fetched, i, lines, r) ==
    IF r.exc # "none" THEN [exc |-> r.exc, lines |-> lines]
    ELSE ConvertRows(name, fetched, i + 1, lines \o Lines(r.ret))

\* The row loop of convert_table from row i on, `lines` written so far.
ConvertRows(name, fetched, i, lines) ==
    IF i > Len(fetched) THEN [exc |-> "none", lines |-> lines]
    ELSE WriteRow(name, fetched, i, lines, RowResult(name, fetched[i]))

\* convert_table once the output is open: done is the outcome of the row loop,
\* fs the world with the SELECT recorded.
Exported(name, n, fs, done) ==
    [exc |-> done.exc,
     ret |-> IF done.exc # "none" THEN <<>> ELSE TableExportResult(name, n),
     fs  |-> [fs EXCEPT !.directory = TRUE,
                        !.files = Put(@, OutputPath(name), done.lines)]]

\* convert_table as one call.  fs is the world it acts on: [directory, files,
\* queried]; the outcome carries the world it leaves.
convert_table(db, name, fs) ==
    IF db[name] = <<>>
    THEN [exc |-> TableEmpty, ret |-> <<>>,
          fs |-> [fs EXCEPT !.queried = Append(@, name)]]
    ELSE Exported(name, Len(db[name]), [fs EXCEPT !.queried = Append(@, name)],
                  ConvertRows(name, db[name], 1, <<>>))

RECURSIVE RunLoop(_, _, _, _)

\* A driver that goes on to the next table when one fails.
CollectResultSkipFailed(db, i, acc, r) ==
    IF r.exc # "none" THEN RunLoop(db, i + 1, r.fs, acc)
    ELSE RunLoop(db, i + 1, r.fs, Append(acc, r.ret))

\* results.append(convert_table(...)): r is the outcome of the call for the
\* i-th table; an exception leaves run_conversion.
CollectResult(db, i, acc, r) ==
    IF r.exc # "none" THEN [exc |-> r.exc, ret |-> None, fs |-> r.fs]
    ELSE RunLoop(db, i + 1, r.fs, Append(acc, r.ret))

\* The loop of run_conversion from the i-th table on, acc the results so far.
RunLoop(db, i, fs, acc) ==
    IF i > Len(Tables) THEN [exc |-> "none", ret |-> Some(acc), fs |-> fs]
    ELSE CollectResult(db, i, acc, convert_table(db, Tables[i], fs))

\* run_conversion as one call, on the world fs.
RunConversion(db, fs) == RunLoop(db, 1, fs, <<>>)

\* ------------------------------------------------------- idle values

Idle == "idle"
NoEntry == [tiles |-> <<>>, who |-> <<>>]
NoPayload == [player_wind |-> 0]
NoFiles == [t \in {} |-> <<>>]

CodecIdle == tile_id = 0 /\ symbol = Raise(Idle)
SplitIdle == action = NoEntry /\ actor = 0 /\ split = Raise(Idle)
BuildIdle == payload = NoPayload /\ built = Raise(Idle)
ExportIdle ==
    /\ table = "" /\ rows = <<>> /\ row_idx = 0 /\ directory = FALSE
    /\ files = NoFiles /\ queried = <<>> /\ error = "none" /\ result = None
DriverIdle == database = NoFiles /\ results = None

\* --------------------------------------------------- the codec on its own

CodecInit ==
    /\ pc = "codec"
    /\ tile_id \in (0 - MaxNegative)..MaxTileId
    /\ symbol = Raise(Idle)
    /\ SplitIdle /\ BuildIdle /\ ExportIdle /\ DriverIdle

Decode ==
    /\ pc = "codec"
    /\ symbol' = tile_id_to_mjai(tile_id)
    /\ pc' = "decoded"
    /\ UNCHANGED <<tile_id, action, actor, split, table, payload, built, rows,
                   row_idx, directory, files, queried, error, result, database,
                   results>>

SpecCodec == CodecInit /\ [][Decode]_vars

\* ----------------------------------------------- the extractor on its own

SplitPairs ==
    ({-1, 5, 9, 13} \X {0, 1}) \cup { <<136, 1>>, <<9, 2>> }
SplitActors == {0, 1}

\* The action entry holding the (tile, owner) pairs p, as parallel lists.
EntryOf(p) ==
    [tiles |-> [i \in 1..Len(p) |-> p[i][1]], who |-> [i \in 1..Len(p) |-> p[i][2]]]

SplitInit ==
    /\ pc = "extract"
    /\ \E n \in 0..MaxLen : \E p \in [1..n -> SplitPairs] : action = EntryOf(p)
    /\ actor \in SplitActors
    /\ split = Raise(Idle)
    /\ CodecIdle /\ BuildIdle /\ ExportIdle /\ DriverIdle

Split ==
    /\ pc = "extract"
    /\ split' = _split_action_tiles(action, actor)
    /\ pc' = "extracted"
    /\ UNCHANGED <<tile_id, symbol, action, actor, table, payload, built, rows,
                   row_idx, directory, files, queried, error, result, database,
                   results>>

SpecSplit == SplitInit /\ [][Split]_vars

\* ------------------------------------- the events of one row on their own

\* Thirteen concealed tiles of different kinds.
Hand13 == [i \in 1..HandSize |-> 8 * i]

Scores == << 25000, 25000, 25000, 25000 >>

Headers == {
    [round_wind |-> 0, dora_indicators |-> <<>>, num_honba |-> 0, num_riichi |-> 0,
     kyoku |-> 0, oya |-> 0, points |-> Scores, PointsReward |-> <<0, 0, 0, 0>>,
     player_wind |-> 0],
    [round_wind |-> 1, dora_indicators |-> <<4, 8>>, num_honba |-> 1, num_riichi |-> 2,
     kyoku |-> 5, oya |-> 1, points |-> <<31000, 19000, 25000, 25000>>,
     PointsReward |-> <<1000, -1000, 0, 0>>, player_wind |-> 1],
    [round_wind |-> 4, dora_indicators |-> <<136>>, num_honba |-> 0, num_riichi |-> 0,
     kyoku |-> 2, oya |-> 3, points |-> Scores, PointsReward |-> <<0, 0, 0, 0>>,
     player_wind |-> 0] }

GoodHeader == CHOOSE h \in Headers : h.kyoku = 0
SouthHeader == CHOOSE h \in Headers : h.kyoku = 5
BadDoraHeader == CHOOSE h \in Headers : h.kyoku = 2

\* A header with the hand it comes with.
Contexts == {
    << GoodHeader, Hand13 >>,
    << GoodHeader, Hand13 \o <<8>> >>,
    << SouthHeader, Hand13 \o <<5>> >>,
    << SouthHeader, Hand13 \o <<136>> >>,
    << GoodHeader, SubSeq(Hand13, 1, 11) \o <<-1>> >>,
    << BadDoraHeader, Hand13 >> }

BuildPairs == ({-1, 5, 9, 136} \X {0}) \cup ({9, 136} \X {1})

\* Another entry of valid_actions, never the selected one.
Decoy == [tiles |-> <<20, 21>>, who |-> <<0, 3>>]

PayloadOf(ctx, entry, idx) ==
    [round_wind      |-> ctx[1].round_wind,
     dora_indicators |-> ctx[1].dora_indicators,
     num_honba       |-> ctx[1].num_honba,
     num_riichi      |-> ctx[1].num_riichi,
     kyoku           |-> ctx[1].kyoku,
     oya             |-> ctx[1].oya,
     points          |-> ctx[1].points,
     PointsReward    |-> ctx[1].PointsReward,
     player_wind     |-> ctx[1].player_wind,
     hand_tiles      |-> ctx[2],
     valid_actions   |-> IF idx = 0 THEN << entry, Decoy >> ELSE << Decoy, entry >>,
     action_idx      |-> idx]

BuildInit ==
    /\ pc = "build"
    /\ table \in TableNames
    /\ \E ctx \in Contexts, idx \in {0, 1}, n \in 0..MaxLen :
          \E p \in [1..n -> BuildPairs] : payload = PayloadOf(ctx, EntryOf(p), idx)
    /\ built = Raise(Idle)
    /\ rows = <<>> /\ row_idx = 0 /\ directory = FALSE /\ files = NoFiles
    /\ queried = <<>> /\ error = "none" /\ result = None
    /\ CodecIdle /\ SplitIdle /\ DriverIdle

\* Lines 319-326 of convert_table for one decoded row.
BuildRow ==
    /\ pc = "build"
    /\ built' = RowEvents(table, payload)
    /\ pc' = "built"
    /\ UNCHANGED <<tile_id, symbol, action, actor, split, table, payload, rows,
                   row_idx, directory, files, queried, error, result, database,
                   results>>

SpecBuild == BuildInit /\ [][BuildRow]_vars

\* ------------------------------------------------- one table's export

\* A row whose entry serves every category: a tile claimed from seat 1 and
\* four tiles of seat 0.
FullEntry == [tiles |-> <<9, 5, 6, 7, 4, -1>>, who |-> <<1, 0, 0, 0, 0, 0>>]
PairEntry == [tiles |-> <<5, 6>>, who |-> <<0, 0>>]
SouthEntry == [tiles |-> <<0, 40, 41, 42, 43>>, who |-> <<0, 1, 1, 1, 1>>]

RowOf(ctx, entry, idx, corrupt) ==
    [corrupt |-> corrupt, data |-> PayloadOf(ctx, entry, idx)]

GoodRow == RowOf(<< GoodHeader, Hand13 >>, FullEntry, 0, FALSE)
DrawRow == RowOf(<< GoodHeader, Hand13 \o <<8>> >>, FullEntry, 1, FALSE)
SouthRow == RowOf(<< SouthHeader, Hand13 \o <<5>> >>, SouthEntry, 0, FALSE)
PairRow == RowOf(<< GoodHeader, Hand13 >>, PairEntry, 0, FALSE)
BadTileRow == RowOf(<< SouthHeader, Hand13 \o <<136>> >>, FullEntry, 0, FALSE)
CorruptRow == RowOf(<< GoodHeader, Hand13 >>, FullEntry, 0, TRUE)

ExportRows == {GoodRow, DrawRow, SouthRow, PairRow, BadTileRow, CorruptRow}

ExportInit ==
    /\ pc = "export"
    /\ table \in TableNames
    /\ \E n \in 0..MaxRows : \E content \in [1..n -> ExportRows] :
          database = [t \in {table} |-> content]
    /\ rows = <<>> /\ row_idx = 0 /\ directory = FALSE /\ files = NoFiles
    /\ queried = <<>> /\ error = "none" /\ result = None
    /\ results = None
    /\ CodecIdle /\ SplitIdle /\ BuildIdle

\* cursor.execute(SELECT ...) and cursor.fetchall()
FetchRows ==
    /\ pc = "export"
    /\ queried' = Append(queried, table)
    /\ rows' = database[table]
    /\ pc' = "fetched"
    /\ UNCHANGED <<tile_id, symbol, action, actor, split, table, payload, built,
                   row_idx, directory, files, error, result, database, results>>

\* The same check made after the output was opened.
RaiseEmptyLate ==
    /\ pc = "fetched"
    /\ rows = <<>>
    /\ directory' = TRUE
    /\ files' = Put(files, OutputPath(table), <<>>)
    /\ error' = TableEmpty
    /\ pc' = "raised"
    /\ UNCHANGED <<tile_id, symbol, action, actor, split, table, payload, built,
                   rows, row_idx, queried, result, database, results>>

\* if not rows: raise RuntimeError
RaiseEmpty ==
    /\ pc = "fetched"
    /\ rows = <<>>
    /\ error' = TableEmpty
    /\ pc' = "raised"
    /\ UNCHANGED <<tile_id, symbol, action, actor, split, table, payload, built,
                   rows, row_idx, directory, files, queried, result, database,
                   results>>

\* ensure_directory(output_dir) and gzip.open(output_path, "wt")
OpenOutput ==
    /\ pc = "fetched"
    /\ rows # <<>>
    /\ directory' = TRUE
    /\ files' = Put(files, OutputPath(table), <<>>)
    /\ pc' = "rows"
    /\ UNCHANGED <<tile_id, symbol, action, actor, split, table, payload, built,
                   rows, row_idx, queried, error, result, database, results>>

\* One iteration of the row loop: the row's events are built, then written.
ConvertRow ==
    /\ pc = "rows"
    /\ row_idx < Len(rows)
    /\ built' = RowResult(table, rows[row_idx + 1])
    /\ built'.exc = "none"
    /\ files' = [files EXCEPT ![OutputPath(table)] = @ \o Lines(built'.ret)]
    /\ payload' = rows[row_idx + 1].data
    /\ row_idx' = row_idx + 1
    /\ UNCHANGED <<pc, tile_id, symbol, action, actor, split, table, rows,
                   directory, queried, error, result, database, results>>

\* The events written as they are built: start_game is out before the row fails.
ConvertRowFailsStreaming ==
    /\ pc = "rows"
    /\ row_idx < Len(rows)
    /\ built' = RowResult(table, rows[row_idx + 1])
    /\ built'.exc # "none"
    /\ error' = built'.exc
    /\ files' = [files EXCEPT ![OutputPath(table)] = Append(@, Line(start_game_event))]
    /\ payload' = rows[row_idx + 1].data
    /\ pc' = "raised"
    /\ UNCHANGED <<tile_id, symbol, action, actor, split, table, rows, row_idx,
                   directory, queried, result, database, results>>

\* One iteration of the row loop that raises: the file is closed as it is.
ConvertRowFails ==
    /\ pc = "rows"
    /\ row_idx < Len(rows)
    /\ built' = RowResult(table, rows[row_idx + 1])
    /\ built'.exc # "none"
    /\ error' = built'.exc
    /\ payload' = rows[row_idx + 1].data
    /\ pc' = "raised"
    /\ UNCHANGED <<tile_id, symbol, action, actor, split, table, rows, row_idx,
                   directory, files, queried, result, database, results>>

\* return TableExportResult(...)
ReturnResult ==
    /\ pc = "rows"
    /\ row_idx = Len(rows)
    /\ result' = Some(TableExportResult(table, Len(rows)))
    /\ pc' = "returned"
    /\ UNCHANGED <<tile_id, symbol, action, actor, split, table, payload, built,
                   rows, row_idx, directory, files, queried, error, database,
                   results>>

ExportNext ==
    \/ FetchRows \/ RaiseEmpty \/ OpenOutput
    \/ ConvertRow \/ ConvertRowFails \/ ReturnResult

SpecExport == ExportInit /\ [][ExportNext]_vars

\* ---------------------------------------------------------- the whole run

Contents == { <<>>, << GoodRow >>, << DrawRow, PairRow >> }

Init ==
    /\ pc = "run"
    /\ \E content \in [TableNames -> Contents] : database = content
    /\ table = "" /\ rows = <<>> /\ row_idx = 0
    /\ directory = FALSE /\ files = NoFiles /\ queried = <<>>
    /\ error = "none" /\ result = None /\ results = None
    /\ CodecIdle /\ SplitIdle /\ BuildIdle

\* The state a call of run_conversion with outcome r leaves.
Finish(r) ==
    /\ directory' = r.fs.directory
    /\ files' = r.fs.files
    /\ queried' = r.fs.queried
    /\ error' = r.exc
    /\ results' = r.ret
    /\ pc' = IF r.exc = "none" THEN "returned" ELSE "raised"

\* run_conversion(database, output_dir), from connect to close.
run_conversion ==
    /\ pc = "run"
    /\ Finish(RunConversion(database,
           [directory |-> directory, files |-> files, queried |-> queried]))
    /\ UNCHANGED <<tile_id, symbol, action, actor, split, table, payload, built,
                   rows, row_idx, result, database>>

Next == run_conversion

Spec == Init /\ [][Next]_vars

\* ------------------------------------------------------------- claim C9

\* The 34 canonical symbols in their defined order: the numerals 1..9 of the
\* suits m, p, s, then the winds E S W N and the dragons P F C.
Suits == << "m", "p", "s" >>
Honors == << "E", "S", "W", "N", "P", "F", "C" >>
NumKinds == 9 * Len(Suits) + Len(Honors)
Canonical(kind) ==
    IF kind < 9 * Len(Suits)
    THEN ToString((kind % 9) + 1) \o Suits[(kind \div 9) + 1]
    ELSE Honors[kind - 9 * Len(Suits) + 1]

\* C9: decode is total on 0..135 and returns the (n // 4)-th canonical symbol,
\* the same for the four ids of a group and different for different groups;
\* for n < 0 and for n // 4 >= 34 it fails with InvalidTileId (ValueError) and
\* returns no symbol.
C9_CodecTotalAndGrouped ==
    pc = "decoded" =>
        /\ NumKinds = 34
        /\ tile_id \in 0..(4 * NumKinds - 1) =>
              /\ symbol = Ok(Canonical(tile_id \div 4))
              /\ \A j \in 0..3 :
                    tile_id_to_mjai(4 * (tile_id \div 4) + j) = symbol
              /\ \A m \in 0..(4 * NumKinds - 1) :
                    (tile_id_to_mjai(m) = symbol) <=> (m \div 4 = tile_id \div 4)
        /\ (tile_id < 0 \/ tile_id \div 4 >= NumKinds) =>
              /\ symbol.exc \in InvalidTileId
              /\ symbol.ret = <<>>

C9_Witness ==
    /\ pc = "decoded"
    /\ tile_id = 135
    /\ symbol = Ok("C")

C9_WitnessRejected ==
    /\ pc = "decoded"
    /\ tile_id = 136
    /\ symbol.exc = UnknownTileId

\* ------------------------------------------------------------- claim C8

Sym(t) == Canonical(t \div 4)

\* Positions of the entry that hold a tile (tile_id >= 0), split by owner.
Used(entry) == { i \in 1..Len(entry.tiles) : entry.tiles[i] >= 0 }
Owned(entry, seat) == { i \in Used(entry) : entry.who[i] = seat }
External(entry, seat) == Used(entry) \ Owned(entry, seat)
Decodable(t) == t >= 0 /\ t \div 4 < NumKinds
LastOf(S) == CHOOSE i \in S : \A k \in S : k <= i

SpecExample == [tiles |-> <<5, 9, -1, 13>>, who |-> <<0, 1, 0, 0>>]

\* C8: pairs with tile_id < 0 are skipped; the decoded tiles owned by the actor
\* form consumed, in source order; the last pair with another owner gives the
\* single claimed tile and claimed_from_seat; with no such pair claimed is
\* empty and claimed_from_seat is None.  The example of the specification
\* gives consumed = [decode(5), decode(13)], claimed = [decode(9)], seat 1.
C8_SplitByOwner ==
    pc = "extracted" =>
        /\ (\A i \in Used(action) : Decodable(action.tiles[i])) =>
              LET own == Owned(action, actor)
                  ext == External(action, actor)
              IN  /\ split.exc = "none"
                  /\ Len(split.ret.consumed) = Cardinality(own)
                  /\ \A i \in own :
                        split.ret.consumed[Cardinality({k \in own : k <= i})]
                            = Sym(action.tiles[i])
                  /\ ext = {} => split.ret.claimed = <<>> /\ split.ret.target = None
                  /\ ext # {} =>
                        /\ split.ret.claimed = << Sym(action.tiles[LastOf(ext)]) >>
                        /\ split.ret.target = Some(action.who[LastOf(ext)])
        /\ (action = SpecExample /\ actor = 0) =>
              split = Ok([consumed |-> << "2m", "4m" >>,
                          claimed  |-> << "3m" >>,
                          target   |-> Some(1)])

C8_Witness ==
    /\ pc = "extracted"
    /\ action = SpecExample
    /\ actor = 0
    /\ split.exc = "none"
    /\ split.ret.target = Some(1)

\* Two tiles of other seats in one entry: the later one is reported.
C8_WitnessLastWins ==
    /\ pc = "extracted"
    /\ action = [tiles |-> <<5, 9, 13>>, who |-> <<1, 0, 1>>]
    /\ actor = 0
    /\ split = Ok([consumed |-> << "3m" >>, claimed |-> << "4m" >>, target |-> Some(1)])

\* ------------------------------------------- claims about one row's events

Entry == SelectedAction(payload)
Seat == payload.player_wind
Drew == Len(payload.hand_tiles) > HandSize

\* The round header and the self-draw of the row decode.
HeaderOk ==
    /\ \A i \in 1..Len(payload.hand_tiles) : Decodable(payload.hand_tiles[i])
    /\ payload.dora_indicators # <<>> => Decodable(payload.dora_indicators[1])

AllDecodable(S) == \A i \in S : Decodable(Entry.tiles[i])

\* The i-th position (in source order) of a set of positions.
Nth(S, n) == CHOOSE i \in S : Cardinality({k \in S : k <= i}) = n

\* The decoded tiles at positions 1..n of S, in source order.
FirstSyms(S, n) == [j \in 1..n |-> Sym(Entry.tiles[Nth(S, j)])]

Types(ev) == [i \in 1..Len(ev) |-> ev[i].type]

\* The event before ryukyoku, end_kyoku, end_game.
LastAction(ev) == ev[Len(ev) - 3]

CallTables == {"Chi", "Pon", "DaiMinKan"}
QuadTables == {"ShouMinKan", "AnKan"}
ConsumedOf(name) == IF name = "DaiMinKan" THEN 3 ELSE 2
MissingOf(name) ==
    CASE name = "Chi" -> ChiMissing [] name = "Pon" -> PonMissing
      [] name = "DaiMinKan" -> DaiminkanMissing
      [] name = "ShouMinKan" -> ShouminkanFour [] name = "AnKan" -> AnkanFour

\* What a row must hold for its category to have an event to build.
WellFormed ==
    /\ HeaderOk
    /\ table \in {"Discard", "Riichi"} =>
          Entry.tiles # <<>> /\ Decodable(Entry.tiles[1])
    /\ table \in CallTables =>
          /\ AllDecodable(Used(Entry))
          /\ External(Entry, Seat) # {}
          /\ Cardinality(Owned(Entry, Seat)) >= ConsumedOf(table)
    /\ table \in QuadTables =>
          /\ AllDecodable(Owned(Entry, Seat))
          /\ Cardinality(Owned(Entry, Seat)) >= 4

CategoryTypes(name) ==
    CASE name = "Skip" -> <<>>
      [] name = "Discard" -> << "dahai" >>
      [] name = "Chi" -> << "chi" >>
      [] name = "Pon" -> << "pon" >>
      [] name = "DaiMinKan" -> << "daiminkan" >>
      [] name = "ShouMinKan" -> << "kakan" >>
      [] name = "AnKan" -> << "ankan" >>
      [] name = "Riichi" -> << "reach", "dahai" >>

ExpectedTypes ==
    << "start_game", "start_kyoku" >> \o (IF Drew THEN << "tsumo" >> ELSE <<>>)
    \o CategoryTypes(table) \o << "ryukyoku", "end_kyoku", "end_game" >>

\* C1: for every category and every well-formed row the events are start_game,
\* start_kyoku, tsumo only if a tile was drawn, the category's 0-2 events
\* (none for Skip, whose builder returns the empty list without failing),
\* ryukyoku, end_kyoku, end_game, in that order and nothing else.
C1_SequenceShape ==
    (pc = "built" /\ WellFormed) =>
        /\ built.exc = "none"
        /\ Types(built.ret) = ExpectedTypes

\* C1, for the seven categories other than Skip: the sequence has that shape.
C1_SequenceShapeExceptSkip ==
    (pc = "built" /\ WellFormed /\ table # "Skip") =>
        /\ built.exc = "none"
        /\ Types(built.ret) = ExpectedTypes

\* C4: a ShouMinKan row with at least 4 tiles of the actor gives a kakan event
\* whose pai is the decoded 4th such tile and whose consumed are the decoded
\* first 3, in source order.
C4_KakanAddedTile ==
    (/\ pc = "built" /\ table = "ShouMinKan" /\ HeaderOk
     /\ AllDecodable(Owned(Entry, Seat))
     /\ Cardinality(Owned(Entry, Seat)) >= 4) =>
        /\ built.exc = "none"
        /\ LastAction(built.ret).type = "kakan"
        /\ LastAction(built.ret).pai = Sym(Entry.tiles[Nth(Owned(Entry, Seat), 4)])
        /\ LastAction(built.ret).consumed = FirstSyms(Owned(Entry, Seat), 3)

\* C5: every chi or pon event has exactly 2 consumed tiles and every daiminkan
\* event exactly 3; an entry with a tile of another seat but fewer tiles of the
\* actor than that fails with MalformedAction.
C5_ConsumedExact ==
    (pc = "built" /\ table \in CallTables) =>
        /\ built.exc = "none" =>
              Len(LastAction(built.ret).consumed) = ConsumedOf(table)
        /\ (/\ HeaderOk /\ AllDecodable(Used(Entry)) /\ External(Entry, Seat) # {}
            /\ Cardinality(Owned(Entry, Seat)) < ConsumedOf(table)) =>
              built.exc \in MalformedAction

\* C6, as claimed: ShouMinKan and AnKan fail with MalformedAction whenever the
\* entry holds fewer than 4 tiles of the actor, Chi, Pon and DaiMinKan whenever
\* it holds no tile of another seat; no event is produced for the row.
C6_MalformedWhenever ==
    (/\ pc = "built" /\ HeaderOk
     /\ \/ table \in QuadTables /\ Cardinality(Owned(Entry, Seat)) < 4
        \/ table \in CallTables /\ External(Entry, Seat) = {}) =>
        /\ built.exc \in MalformedAction
        /\ built.ret = <<>>

\* C6, amended: in those cases the builder fails and no event is produced for
\* the row; the failure is InvalidTileId when one of the tiles of the actor in
\* the entry has an id of 136 or more, which is decoded before the tiles are
\* counted, and the category's MalformedAction otherwise.
C6_FailsWhenTooFew ==
    (/\ pc = "built" /\ HeaderOk
     /\ \/ table \in QuadTables /\ Cardinality(Owned(Entry, Seat)) < 4
        \/ table \in CallTables /\ External(Entry, Seat) = {}) =>
        /\ built.exc = IF AllDecodable(Owned(Entry, Seat)) THEN MissingOf(table)
                       ELSE UnknownTileId
        /\ built.ret = <<>>

C6_Witness ==
    /\ pc = "built" /\ HeaderOk
    /\ table = "ShouMinKan"
    /\ Cardinality(Owned(Entry, Seat)) = 3
    /\ Cardinality(Used(Entry)) = 4
    /\ built.exc = ShouminkanFour

C6_WitnessNoExternal ==
    /\ pc = "built" /\ HeaderOk
    /\ table = "Pon"
    /\ Cardinality(Owned(Entry, Seat)) = 2
    /\ External(Entry, Seat) = {}
    /\ built.exc = PonMissing

\* C7: the dahai event of a Discard row has tsumogiri true iff hand_tiles has
\* more than 13 entries and its last tile decodes to the symbol of
\* valid_actions[action_idx].tiles[0]; it is false with 13 or fewer entries;
\* when true, the tsumo event before it has the same actor and the same pai.
\* The tsumo event is there iff hand_tiles has more than 13 entries, and the
\* row has a dahai event iff its header and the discarded tile decode.
C7_Tsumogiri ==
    (pc = "built" /\ table = "Discard") =>
        /\ built.exc = "none" <=>
              (HeaderOk /\ Entry.tiles # <<>> /\ Decodable(Entry.tiles[1]))
        /\ built.exc = "none" =>
              LET ev == built.ret
                  dahai == LastAction(ev)
                  hand == payload.hand_tiles
              IN  /\ dahai.type = "dahai"
                  /\ dahai.actor = Seat
                  /\ dahai.pai = Sym(Entry.tiles[1])
                  /\ dahai.tsumogiri <=>
                        (Drew /\ Sym(hand[Len(hand)]) = Sym(Entry.tiles[1]))
                  /\ ~Drew => ~dahai.tsumogiri
                  /\ Drew <=> ev[3].type = "tsumo"
                  /\ dahai.tsumogiri =>
                        /\ ev[4] = dahai
                        /\ ev[3].actor = dahai.actor
                        /\ ev[3].pai = dahai.pai

\* The drawn tile 8 and the discarded tile 9 are different ids of the kind 3m.
C7_Witness ==
    /\ pc = "built" /\ table = "Discard"
    /\ payload.hand_tiles[Len(payload.hand_tiles)] = 8
    /\ Entry.tiles # <<>> /\ Entry.tiles[1] = 9
    /\ built.exc = "none"
    /\ LastAction(built.ret) =
          [type |-> "dahai", actor |-> 0, pai |-> "3m", tsumogiri |-> TRUE]

\* ---------------------------------------------- claims about the export

Path == OutputPath(table)

\* The lines of the complete event sequences of the first k rows, in row order.
RECURSIVE LinesOfRows(_)
LinesOfRows(k) ==
    IF k = 0 THEN <<>>
    ELSE LinesOfRows(k - 1) \o Lines(RowResult(table, rows[k]).ret)

CountType(lines, type) ==
    Cardinality({ i \in 1..Len(lines) : lines[i].json.type = type })

\* C3: a table with zero rows makes convert_table fail with the empty-table
\* error before output_dir or the table's output file is created or opened.
C3_EmptyBeforeOutput ==
    (pc # "export" /\ table \in DOMAIN database /\ database[table] = <<>>) =>
        /\ pc \in {"fetched", "raised"}
        /\ pc = "raised" => error = TableEmpty
        /\ ~directory
        /\ DOMAIN files = {}
        /\ result = None

C3_Witness ==
    /\ pc = "raised"
    /\ table = "Discard"
    /\ queried = << "Discard" >>
    /\ error = TableEmpty
    /\ ~directory
    /\ Path \notin DOMAIN files

\* C10: at every point of a table's export the lines handed to its output are
\* the complete event sequences of the first row_idx rows, in row order; a row
\* that fails to decode or to build contributes no line, and the export stops
\* at it.
C10_RowAtomic ==
    (pc \in {"rows", "raised", "returned"} /\ rows # <<>>) =>
        /\ Path \in DOMAIN files
        /\ row_idx <= Len(rows)
        /\ \A i \in 1..row_idx : RowResult(table, rows[i]).exc = "none"
        /\ files[Path] = LinesOfRows(row_idx)
        /\ CountType(files[Path], "start_game") = row_idx
        /\ CountType(files[Path], "end_game") = row_idx
        /\ pc = "returned" => row_idx = Len(rows)
        /\ pc = "raised" =>
              /\ row_idx < Len(rows)
              /\ error # "none"
              /\ error = RowResult(table, rows[row_idx + 1]).exc

\* Two rows written in full, the third fails: its lines are not in the file.
C10_Witness ==
    /\ pc = "raised"
    /\ table = "Discard"
    /\ rows = << GoodRow, DrawRow, BadTileRow >>
    /\ row_idx = 2
    /\ error = UnknownTileId
    /\ Len(files[Path]) = 13

\* ------------------------------------------------ claims about the driver

Fresh == [directory |-> FALSE, files |-> NoFiles, queried |-> <<>>]

\* The outcome of the Exporter for the i-th category, called on its own.
ExporterOutcome(i) == convert_table(database, Tables[i], Fresh).exc
Failing == { i \in 1..Len(Tables) : ExporterOutcome(i) # "none" }
FirstFailing == CHOOSE k \in Failing : \A i \in Failing : k <= i

\* C2: the driver calls the Exporter on the categories in the order Skip,
\* Discard, Chi, Pon, DaiMinKan, ShouMinKan, AnKan, Riichi.  If the Exporter
\* fails for category k the failure leaves the driver, no category after k is
\* read or written and no list is returned; if none fails, 8 summaries are
\* returned in that order.
C2_FailFast ==
    pc \in {"raised", "returned"} =>
        IF Failing = {}
        THEN /\ pc = "returned"
             /\ queried = Tables
             /\ results # None
             /\ Len(results[1]) = 8
             /\ \A i \in 1..8 : results[1][i].table = Tables[i]
        ELSE /\ pc = "raised"
             /\ error = ExporterOutcome(FirstFailing)
             /\ results = None
             /\ queried = SubSeq(Tables, 1, FirstFailing)
             /\ DOMAIN files \subseteq { OutputPath(Tables[i]) : i \in 1..FirstFailing }

\* C1 and C2 in the whole run: Skip is the first table and its export always
\* fails (no rows, or the two-argument call of skip_conversion), so
\* run_conversion never returns a list.
C2_NeverReturns == pc # "returned" /\ (pc = "raised" => queried = << "Skip" >>)

\* The Skip table is empty and the Discard table is not: Discard is never read.
C2_Witness ==
    /\ pc = "raised"
    /\ database["Skip"] = <<>>
    /\ database["Discard"] = << GoodRow >>
    /\ error = TableEmpty
    /\ queried = << "Skip" >>
    /\ results = None
    /\ DOMAIN files = {}

====
